---------------------------- MODULE Spec2Model ----------------------------
(***************************************************************************)
(* pyhystrix: retry + circuit breaking around requests.api.request.        *)
(*                                                                         *)
(* The model has three layers, each translated from the source:            *)
(*   - circuit_breaker.CircuitBreaker: the breaker's fields as a record    *)
(*     and its methods as operators from a breaker (and the clock) to the  *)
(*     breaker after the call;                                             *)
(*   - pyhystrix.Breaker: the registry `_breakers`, keyed by get_key(url); *)
(*   - pyhystrix.pyhystrix_wrapper: one action per step of a request       *)
(*     (Breaker.new, the is_open pre-check, the rejection, one transport   *)
(*     attempt, the two calls of CustomRetry.is_exhausted, circuit.close). *)
(* Four specifications use them: Spec, one caller of the wrapper;          *)
(* BreakerSpec, one CircuitBreaker driven through its methods (_call,      *)
(* is_open, mark_failure, increment_failure_count, close) in any order;    *)
(* RegistrySpec, concurrent callers of Breaker.new; ConcurrentSpec, two    *)
(* threads sending requests to one endpoint through the wrapper.           *)
(*                                                                         *)
(* Every method of CircuitBreaker that the wrapper calls takes the         *)
(* breaker's lock for its whole body, so each call is one atomic action    *)
(* and the steps of a request are written per thread. The transport        *)
(* attempt itself (Session.request -> urllib3) runs with no breaker lock   *)
(* held: the wrapper never goes through CircuitBreaker._call.              *)
(*                                                                         *)
(* urllib3's Retry is the base class of CustomRetry (pyhystrix.py:116).    *)
(* Its counters are modelled as the library keeps them: increment()        *)
(* decrements `total` and the counter of the failure's kind, builds the    *)
(* new Retry and asks new_retry.is_exhausted(); the base is_exhausted()    *)
(* drops the counters that are None or 0 and reports min(rest) < 0.        *)
(***************************************************************************)
EXTENDS Integers, Sequences, FiniteSets, TLC

VARIABLES
    now,        \* time.time(), in whole model seconds
    _breakers,  \* Breaker._breakers: key -> CircuitBreaker fields
    pc,         \* per thread: position inside pyhystrix_wrapper
    kwargs,     \* per thread: the call's method, url and max_tries keyword
    retries,    \* per thread: the CustomRetry object of the current attempt
    obs,        \* per thread: what the caller and the test doubles observe
    \* one CircuitBreaker used directly through its methods
    args,       \* the constructor's validation_func, allowed_exceptions
                \* and failure_exceptions
    built,      \* "no", "ok" or the error __init__ raised
    breaker,    \* the object's fields
    call,       \* the _call that holds the breaker's lock, if any
    last,       \* the latest method call: the breaker before it, its result
    fails,      \* failures observed since the breaker was last Closed at 0
    \* concurrent callers of Breaker.new
    rth,        \* per thread: position in Breaker.new, its url and key
    \* concurrent requests to one endpoint
    cth,        \* per thread: position in pyhystrix_wrapper, the state its
                \* pre-check found, how its latest outcome was accounted
    probes      \* requests let through since the breaker became Half-Open

wrapper_vars == <<_breakers, pc, kwargs, retries, obs>>
breaker_vars == <<args, built, breaker, call, last, fails>>
conc_vars == <<cth, probes>>
vars == <<now, _breakers, pc, kwargs, retries, obs,
          args, built, breaker, call, last, fails, rth, cth, probes>>

-----------------------------------------------------------------------------
(* Bounds of the model and configuration (config.py reads each from the    *)
(* environment; the values here are small stand-ins for the defaults).     *)

\* PYH_CIRCUIT_FAIL_THRESHOLD -> CircuitBreaker(allowed_fails=...)
cb_fail_threshold == 3
\* PYH_CIRCUIT_DELAY -> CircuitBreaker(retry_time=...), seconds, positive
cb_delay == 2
\* PYH_CIRCUIT_ALIVE_THRESHOLD -> CircuitBreaker(retry_after=...)
cb_alive_threshold == 2
\* PHY_MAX_TRIES -> Retry(total=...) when the caller passes no max_tries
max_tries == 1
\* the clock stops advancing here
MaxTime == 3
\* the transport stops failing once a breaker has counted this many failures
MaxFailureCount == 4

\* The calling threads: one caller, whose requests follow one another (the
\* retry and circuit-breaking scenarios of tests.py).
Threads == {1}

CLOSED == 0
OPEN == 1
HALF_OPEN == 2

-----------------------------------------------------------------------------
(* circuit_breaker.CircuitBreaker                                          *)

\* CircuitBreaker.__init__ as Breaker.new calls it: allowed_fails, retry_time
\* and retry_after are the breaker's constructor arguments, taken from Config.
allowed_fails == cb_fail_threshold
retry_time == cb_delay
open_circuit_failure_threashold == cb_alive_threshold

CircuitBreaker ==
    [state |-> CLOSED,
     failure_count |-> 0,
     open_circuit_failure_count |-> 0,
     half_open_time |-> 0]

\* _open that forgets retry_time.
_open_no_delay(b, t) ==
    [b EXCEPT !.state = OPEN, !.open_circuit_failure_count = 0,
              !.half_open_time = t]

_open(b, t) ==
    [b EXCEPT !.state = OPEN,
              !.half_open_time = t + retry_time,
              !.open_circuit_failure_count = 0]

\* _close that forgets the failure count.
_close_keeps_failures(b) ==
    [b EXCEPT !.state = CLOSED, !.open_circuit_failure_count = 0]

_close(b) ==
    [b EXCEPT !.state = CLOSED,
              !.failure_count = 0,
              !.open_circuit_failure_count = 0]

\* _half_open that forgets the failure count.
_half_open_resets(b) == [b EXCEPT !.state = HALF_OPEN, !.failure_count = 0]

_half_open(b) == [b EXCEPT !.state = HALF_OPEN]

\* _check_state that leaves Open whatever the time and the rejected count.
_check_state_eager(b, t) == IF b.state = OPEN THEN _half_open(b) ELSE b

\* _check_state with `now > half_open_time` for `>=`.
_check_state_late(b, t) ==
    IF b.state = OPEN
       /\ (t > b.half_open_time
           \/ b.open_circuit_failure_count >= open_circuit_failure_threashold)
    THEN _half_open(b)
    ELSE b

\* _check_state with `count > threshold` for `>=`.
_check_state_one_more(b, t) ==
    IF b.state = OPEN
       /\ (t >= b.half_open_time
           \/ b.open_circuit_failure_count > open_circuit_failure_threashold)
    THEN _half_open(b)
    ELSE b

\* The breaker after _check_state(); the value it returns is the state field.
_check_state(b, t) ==
    IF b.state = OPEN
       /\ (t >= b.half_open_time
           \/ b.open_circuit_failure_count >= open_circuit_failure_threashold)
    THEN _half_open(b)
    ELSE b

\* _on_failure that looks at the state without the state check.
_on_failure_no_refresh(b, t) ==
    LET b1 == [b EXCEPT !.failure_count = @ + 1] IN
    IF b1.failure_count >= allowed_fails /\ b1.state # OPEN
    THEN _open(b1, t)
    ELSE b1

\* _on_failure with `failure_count > allowed_fails` for `>=`.
_on_failure_late(b, t) ==
    LET b1 == [b EXCEPT !.failure_count = @ + 1] IN
    IF b1.failure_count > allowed_fails
    THEN LET b2 == _check_state(b1, t) IN
         IF b2.state # OPEN THEN _open(b2, t) ELSE b2
    ELSE b1

_on_failure(b, t) ==
    LET b1 == [b EXCEPT !.failure_count = @ + 1] IN
    IF b1.failure_count >= allowed_fails
    THEN LET b2 == _check_state(b1, t) IN
         IF b2.state # OPEN THEN _open(b2, t) ELSE b2
    ELSE b1

\* is_open that reports every state but Closed as open.
is_open_not_closed(b, t) == _check_state(b, t).state # CLOSED

\* The value of the is_open property; the breaker it leaves is _check_state(b, t).
is_open(b, t) == _check_state(b, t).state = OPEN

increment_failure_count(b) ==
    [b EXCEPT !.open_circuit_failure_count = @ + 1]

\* mark_failure that counts nothing on an Open breaker.
mark_failure_unless_open(b, t) == IF b.state = OPEN THEN b ELSE _on_failure(b, t)

mark_failure(b, t) == _on_failure(b, t)

\* close that resets whatever the state.
close_always_resets(b, t) == _close(_check_state(b, t))

close(b, t) ==
    LET b1 == _check_state(b, t) IN
    IF b1.state # CLOSED THEN _close(b1) ELSE b1

-----------------------------------------------------------------------------
(* pyhystrix.Breaker: the registry                                         *)

\* The urls of the model, as urlparse splits them.
Urls ==
    {[scheme |-> "http", netloc |-> "www.a.com", path |-> "/x", query |-> ""],
     [scheme |-> "http", netloc |-> "www.a.com", path |-> "/x", query |-> "q=1"]}

\* "".join([o.scheme, o.netloc, o.path])
get_key(raw_url) == raw_url.scheme \o raw_url.netloc \o raw_url.path

\* The urls given to Breaker.new by concurrent callers, as urlparse splits
\* them: netloc is the whole authority, userinfo included.
NewUrls ==
    {[scheme |-> "http", netloc |-> "www.a.com", path |-> "/x",
      query |-> "", fragment |-> ""],
     [scheme |-> "http", netloc |-> "www.a.com", path |-> "/x",
      query |-> "q=1", fragment |-> ""],
     [scheme |-> "http", netloc |-> "www.a.com", path |-> "/x",
      query |-> "", fragment |-> "top"],
     [scheme |-> "http", netloc |-> "bob@www.a.com", path |-> "/x",
      query |-> "", fragment |-> ""]}

\* A Breaker.new that constructs a breaker whatever _breakers holds.
creates_always(reg, url) == TRUE

\* Breaker.new constructs a breaker: `cls._breakers.get(key)` is None
creates(reg, url) == get_key(url) \notin DOMAIN reg

\* Breaker.new: the registry after the call (the breaker returned is the
\* entry of get_key(url)).
new(reg, url) ==
    LET key == get_key(url) IN
    IF creates(reg, url)
    THEN [k \in DOMAIN reg \cup {key} |->
             IF k = key THEN CircuitBreaker ELSE reg[k]]
    ELSE reg

-----------------------------------------------------------------------------
(* pyhystrix.get_backoff_args and the Retry object                         *)

\* Config.method_whitelist(), Config.status_forcelist()
method_whitelist == {"HEAD", "GET"}
status_forcelist == {500}

\* requests.get / requests.put pass the method in lower case
Methods == {"get", "put"}
upper(method) ==
    CASE method = "get" -> "GET"
      [] method = "put" -> "PUT"
      [] method = "head" -> "HEAD"
      [] OTHER -> method

\* The max_tries keyword: << >> when the caller passes none, <<n>> otherwise.
MaxTriesArgs == {<< >>} \cup {<<n>> : n \in 0..(cb_fail_threshold + 2)}

\* get_backoff_args that never adds the request's method to the whitelist.
get_backoff_args_no_optin(kw, method) ==
    LET given == kw.max_tries # << >>
        mt == IF given THEN kw.max_tries[1] ELSE 0
    IN [method_whitelist |-> method_whitelist,
        status_forcelist |-> status_forcelist,
        max_tries |-> IF given THEN mt ELSE max_tries]

get_backoff_args(kw, method) ==
    LET given == kw.max_tries # << >>
        mt == IF given THEN kw.max_tries[1] ELSE 0
    IN [method_whitelist |->
            IF given /\ mt > 0
            THEN method_whitelist \cup {upper(method)}
            ELSE method_whitelist,
        status_forcelist |-> status_forcelist,
        max_tries |-> IF given THEN mt ELSE max_tries]

\* CustomRetry built with one try less than asked for.
CustomRetry_one_less(bargs) ==
    [total |-> bargs.max_tries - 1,
     connect |-> bargs.max_tries - 1,
     read |-> bargs.max_tries - 1,
     status |-> bargs.max_tries - 1,
     status_forcelist |-> bargs.status_forcelist,
     method_whitelist |-> bargs.method_whitelist]

\* CustomRetry(total=, connect=, read=, status=, status_forcelist=,
\*             method_whitelist=) as the wrapper builds it
CustomRetry(bargs) ==
    [total |-> bargs.max_tries,
     connect |-> bargs.max_tries,
     read |-> bargs.max_tries,
     status |-> bargs.max_tries,
     status_forcelist |-> bargs.status_forcelist,
     method_whitelist |-> bargs.method_whitelist]

\* The Retry object of an idle thread (none has been built).
NoRetry == CustomRetry(get_backoff_args([max_tries |-> <<0>>], "get"))

\* Retry.increment up to the new Retry object: one less in total and in the
\* counter of the failure's kind ("connect" or "status").
increment(r, cause) ==
    IF cause = "connect"
    THEN [r EXCEPT !.total = @ - 1, !.connect = @ - 1]
    ELSE [r EXCEPT !.total = @ - 1, !.status = @ - 1]

\* is_exhausted that gives up when a counter reaches 0.
super_is_exhausted_at_zero(r) ==
    \E c \in {r.total, r.connect, r.read, r.status} : c <= 0

\* Retry.is_exhausted of the base class: of the counters that are neither
\* None nor 0, the least is negative.
super_is_exhausted(r) ==
    LET retry_counts == {r.total, r.connect, r.read, r.status} \ {0} IN
    /\ retry_counts # {}
    /\ \E c \in retry_counts : c < 0

\* Retry.is_retry: the method is retryable and the status is force-listed.
is_retry(r, method, status) ==
    /\ upper(method) \in r.method_whitelist
    /\ status \in r.status_forcelist

\* What one transport attempt can do: raise urllib3's ConnectTimeoutError
\* (a connection error, retriable), raise an error urllib3 does not catch
\* (KeyError in the tests), or return a response with a status.
Outcomes ==
    {[raised |-> "ConnectTimeoutError", status |-> 0],
     [raised |-> "KeyError", status |-> 0],
     [raised |-> "", status |-> 200],
     [raised |-> "", status |-> 500]}

\* A retry path that takes every raised error.
Retried_any_error(r, method, o) ==
    \/ o.raised # ""
    \/ o.raised = "" /\ is_retry(r, method, o.status)

\* The attempt ends in Retry.increment (and so in CustomRetry.is_exhausted).
Retried(r, method, o) ==
    \/ o.raised = "ConnectTimeoutError"
    \/ o.raised = "" /\ is_retry(r, method, o.status)

-----------------------------------------------------------------------------
(* pyhystrix.pyhystrix_wrapper                                             *)

Key(t) == get_key(kwargs[t].url)
circuit(t) == _breakers[Key(t)]

\* is_exhausted that does not look at the breaker.
is_exhausted_ignores_circuit(b, t, r) == super_is_exhausted(r)

\* CustomRetry.is_exhausted: its answer on breaker b at time t, after
\* mark_failure() has run; the breaker it leaves is _check_state(b, t).
is_exhausted(b, t, r) ==
    IF is_open(b, t) THEN TRUE ELSE super_is_exhausted(r)

\* What the caller and the test doubles see of one request:
\*   tries   transport attempts made (the tests' temp["retried"])
\*   marks   calls of circuit.mark_failure()
\*   seen    the outcomes of the attempts; last, the latest one
\*   result  what the wrapper raised or returned
\*   entry   the breaker as Breaker.new returned it; pre, as the pre-check
\*           left it; at, the clock at the pre-check
\*   after_probe  the caller's previous request succeeded on a half-open breaker
NoOutcome == [raised |-> "", status |-> 0]
NoObs ==
    [tries |-> 0, marks |-> 0, seen |-> {}, last |-> NoOutcome,
     result |-> "none", entry |-> CircuitBreaker, pre |-> CircuitBreaker,
     at |-> 0, after_probe |-> FALSE]

\* The state of a thread that is not in Breaker.new.
\* got is the breaker it was returned and made the breakers it constructed,
\* each named by the number of breakers constructed before it.
NoNew ==
    [pc |-> "idle",
     url |-> CHOOSE u \in NewUrls :
                 u.query = "" /\ u.fragment = "" /\ u.netloc = "www.a.com",
     key |-> "", got |-> -1, made |-> {}]
RThreads == {1, 2}

\* No breaker has been constructed directly, nobody is in Breaker.new.
NoArgs ==
    [validation_func |-> "None", allowed_exceptions |-> {},
     failure_exceptions |-> {}]
NoCall == [active |-> FALSE, refreshed |-> CircuitBreaker]
NoLast ==
    [op |-> "none", prev |-> CircuitBreaker, at |-> 0, ran |-> FALSE,
     raised |-> "", result |-> 0, ret |-> "None"]
DirectIdle ==
    /\ args = NoArgs /\ built = "no" /\ breaker = CircuitBreaker
    /\ call = NoCall /\ last = NoLast /\ fails = 0
RegistryIdle == rth = [t \in RThreads |-> NoNew]

\* The threads that send requests to one endpoint at the same time, each
\* with requests.get(url, max_tries=0): one transport attempt per request.
Callers == {1, 2}
SharedUrl == CHOOSE u \in Urls : u.query = ""
SharedKey == get_key(SharedUrl)
OneTry == CustomRetry(get_backoff_args([max_tries |-> <<0>>], "get"))
\* No outcome accounted yet; the thread is not in the wrapper.
NoAcct ==
    [kind |-> "none", was |-> CLOSED, added |-> 0, left |-> CLOSED,
     count |-> 0]
NoRequest == [pc |-> "idle", adm |-> CLOSED, acct |-> NoAcct]
ConcurrentIdle == cth = [t \in Callers |-> NoRequest] /\ probes = 0

Init ==
    /\ DirectIdle
    /\ RegistryIdle
    /\ ConcurrentIdle
    /\ now = 0
    /\ _breakers = << >>
    /\ pc = [t \in Threads |-> "idle"]
    /\ kwargs = [t \in Threads |->
                   [method |-> "get",
                    url |-> CHOOSE u \in Urls : u.query = "",
                    max_tries |-> << >>]]
    /\ retries = [t \in Threads |-> NoRetry]
    /\ obs = [t \in Threads |-> NoObs]

\* requests.api.request(method, url, max_tries=...): line 110, Breaker.new(url)
Request(t, method, url, mt) ==
    /\ pc[t] \in {"idle", "done"}
    /\ _breakers' = new(_breakers, url)
    /\ kwargs' = [kwargs EXCEPT ![t] =
                    [method |-> method, url |-> url, max_tries |-> mt]]
    /\ retries' = [retries EXCEPT ![t] = NoRetry]
    /\ obs' = [obs EXCEPT ![t] =
                  [NoObs EXCEPT !.after_probe =
                      /\ obs[t].result = "Response"
                      /\ obs[t].pre.state = HALF_OPEN]]
    /\ pc' = [pc EXCEPT ![t] = "is_open"]
    /\ UNCHANGED now
    /\ UNCHANGED <<breaker_vars, rth, conc_vars>>

\* line 111, `if circuit.is_open:`; when it is false, lines 116-136 build the
\* CustomRetry of the call (thread-local)
PreCheck(t) ==
    /\ pc[t] = "is_open"
    /\ _breakers' = [_breakers EXCEPT ![Key(t)] = _check_state(@, now)]
    /\ obs' = [obs EXCEPT ![t].entry = circuit(t),
                          ![t].pre = _check_state(circuit(t), now),
                          ![t].at = now]
    /\ IF is_open(circuit(t), now)
       THEN /\ pc' = [pc EXCEPT ![t] = "rejected"]
            /\ UNCHANGED retries
       ELSE /\ pc' = [pc EXCEPT ![t] = "send"]
            /\ retries' = [retries EXCEPT ![t] =
                  CustomRetry(get_backoff_args(kwargs[t], kwargs[t].method))]
    /\ UNCHANGED <<now, kwargs>>
    /\ UNCHANGED <<breaker_vars, rth, conc_vars>>

\* lines 113-114: increment_failure_count(), raise ConnectionError("Open Circuit")
Reject(t) ==
    /\ pc[t] = "rejected"
    /\ _breakers' = [_breakers EXCEPT ![Key(t)] = increment_failure_count(@)]
    /\ obs' = [obs EXCEPT ![t].result = "Open Circuit"]
    /\ pc' = [pc EXCEPT ![t] = "done"]
    /\ UNCHANGED <<now, kwargs, retries>>
    /\ UNCHANGED <<breaker_vars, rth, conc_vars>>

\* line 137: one transport attempt of s.request, with outcome o
Send(t, o) ==
    /\ pc[t] = "send"
    /\ Retried(retries[t], kwargs[t].method, o)
          => circuit(t).failure_count < MaxFailureCount
    /\ obs' = [obs EXCEPT ![t].tries = @ + 1,
                          ![t].seen = @ \cup {o},
                          ![t].last = o,
                          ![t].result =
                              IF o.raised = "KeyError" THEN "KeyError" ELSE @]
    /\ IF Retried(retries[t], kwargs[t].method, o)
       THEN /\ retries' = [retries EXCEPT ![t] =
                  increment(@, IF o.raised = "" THEN "status" ELSE "connect")]
            /\ pc' = [pc EXCEPT ![t] = "mark_failure"]
       ELSE /\ UNCHANGED retries
            /\ pc' = [pc EXCEPT ![t] =
                  IF o.raised = "KeyError" THEN "done" ELSE "close"]
    /\ UNCHANGED <<now, _breakers, kwargs>>
    /\ UNCHANGED <<breaker_vars, rth, conc_vars>>

\* line 119: CustomRetry.is_exhausted, circuit.mark_failure()
MarkFailure(t) ==
    /\ pc[t] = "mark_failure"
    /\ _breakers' = [_breakers EXCEPT ![Key(t)] = mark_failure(@, now)]
    /\ obs' = [obs EXCEPT ![t].marks = @ + 1]
    /\ pc' = [pc EXCEPT ![t] = "is_exhausted"]
    /\ UNCHANGED <<now, kwargs, retries>>
    /\ UNCHANGED <<breaker_vars, rth, conc_vars>>

\* lines 120-122: `if circuit.is_open: return True`, else the base class's
\* answer; True makes Retry.increment raise MaxRetryError, which requests
\* turns into ConnectionError (connect failures) or RetryError (statuses)
IsExhausted(t) ==
    /\ pc[t] = "is_exhausted"
    /\ _breakers' = [_breakers EXCEPT ![Key(t)] = _check_state(@, now)]
    /\ IF is_exhausted(circuit(t), now, retries[t])
       THEN /\ pc' = [pc EXCEPT ![t] = "done"]
            /\ obs' = [obs EXCEPT ![t].result =
                  IF retries[t].status < retries[t].connect
                  THEN "RetryError" ELSE "ConnectionError"]
       ELSE /\ pc' = [pc EXCEPT ![t] = "send"]
            /\ UNCHANGED obs
    /\ UNCHANGED <<now, kwargs, retries>>
    /\ UNCHANGED <<breaker_vars, rth, conc_vars>>

\* lines 138-139: circuit.close(), return resp
Close(t) ==
    /\ pc[t] = "close"
    /\ _breakers' = [_breakers EXCEPT ![Key(t)] = close(@, now)]
    /\ obs' = [obs EXCEPT ![t].result = "Response"]
    /\ pc' = [pc EXCEPT ![t] = "done"]
    /\ UNCHANGED <<now, kwargs, retries>>
    /\ UNCHANGED <<breaker_vars, rth, conc_vars>>

\* time.time() advances by a second while some thread of T waits: between
\* two requests, or inside a transport attempt and the backoff sleep before
\* it. The statements between (the pre-check and the raise after it, the two
\* calls inside is_exhausted, close) take no model time: retry_time is whole
\* seconds, at least 1.
Tick(T) ==
    /\ now < MaxTime
    /\ \E t \in T : pc[t] \in {"idle", "done", "send"}
    /\ now' = now + 1
    /\ UNCHANGED wrapper_vars
    /\ UNCHANGED <<breaker_vars, rth, conc_vars>>

\* One step of thread t, its requests drawn from the calls in Calls.
Step(t, Calls) ==
    \/ \E c \in Calls : Request(t, c.method, c.url, c.max_tries)
    \/ PreCheck(t)
    \/ Reject(t)
    \/ \E o \in Outcomes : Send(t, o)
    \/ MarkFailure(t)
    \/ IsExhausted(t)
    \/ Close(t)

\* The calls a caller can make.
AllCalls == [method : Methods, url : Urls, max_tries : MaxTriesArgs]

\* The callers of Threads issue requests one after the other while the clock
\* advances.
Next == Tick(Threads) \/ \E t \in Threads : Step(t, AllCalls)
Spec == Init /\ [][Next]_vars

-----------------------------------------------------------------------------
(* circuit_breaker.CircuitBreaker used directly: __init__ and _call        *)

\* The exception classes of tests.py and their base classes
\* (TestException is the subclass of AttributeError of test_handles_child_exc).
bases(c) ==
    CASE c = "KeyError" -> {"LookupError"}
      [] c = "TestException" -> {"AttributeError"}
      [] OTHER -> {}
\* c, its bases and their bases
mro(c) == {c} \cup bases(c) \cup UNION {bases(d) : d \in bases(c)}
\* A match on the class itself only.
isinstance_exact(e, classes) == e \in classes

\* isinstance(e, classes), the test of an `except classes:` clause
isinstance(e, classes) == mro(e) \cap classes # {}

\* What the wrapped function can do: return a number or raise.
Raisable == {"KeyError", "AttributeError", "TestException"}
FuncOutcomes ==
    [raised : {""}, result : {0, 1}] \cup [raised : Raisable, result : {0}]

\* validation_stub of tests.py
validation_stub(number) == number > 0

\* The constructor arguments tried.
ExceptionLists == {{}, {"AttributeError"}, {"KeyError"}, {"LookupError"}}
ArgsTried ==
    [validation_func : {"None", "validation_stub"},
     allowed_exceptions : ExceptionLists,
     failure_exceptions : ExceptionLists]

\* __init__ without the check of the two lists.
__init__unchecked(a) == ""

\* CircuitBreaker.__init__: the error it raises, "" when it returns.
__init__(a) ==
    IF a.failure_exceptions # {} /\ a.allowed_exceptions # {}
    THEN "ValueError"
    ELSE ""

_on_success(b) == _close(b)

\* _parse_result that never asks validation_func.
_parse_result_unvalidated(a, b, t, result) == _on_success(b)

_parse_result(a, b, t, result) ==
    IF a.validation_func = "None"
    THEN _on_success(b)
    ELSE IF validation_stub(result)
         THEN _on_success(b)
         ELSE _on_failure(b, t)

\* _call that counts every error outside allowed_exceptions as a failure.
_call_counts_unlisted(a, b, t, o) ==
    IF o.raised # ""
    THEN IF isinstance(o.raised, a.allowed_exceptions)
         THEN [breaker |-> b, raises |-> "", returns |-> "None"]
         ELSE [breaker |-> _on_failure(b, t), raises |-> "", returns |-> "None"]
    ELSE [breaker |-> _parse_result(a, b, t, o.result),
          raises |-> "", returns |-> "None"]

\* _call that re-raises the errors it counts as failures.
_call_reraises(a, b, t, o) ==
    IF o.raised # ""
    THEN IF isinstance(o.raised, a.allowed_exceptions)
         THEN [breaker |-> b, raises |-> "", returns |-> "None"]
         ELSE IF isinstance(o.raised, a.failure_exceptions)
         THEN [breaker |-> _on_failure(b, t), raises |-> o.raised,
               returns |-> "None"]
         ELSE IF a.failure_exceptions # {}
         THEN [breaker |-> b, raises |-> "", returns |-> "None"]
         ELSE [breaker |-> _on_failure(b, t), raises |-> o.raised,
               returns |-> "None"]
    ELSE [breaker |-> _parse_result(a, b, t, o.result),
          raises |-> "", returns |-> "None"]

\* _call from line 171 on, the state check passed: func has returned or
\* raised o, at time t. breaker: the fields afterwards; raises: the error
\* _call lets out ("" when it returns); returns: the value it returns. No
\* branch re-raises and no branch returns func's result.
_call(a, b, t, o) ==
    IF o.raised # ""
    THEN IF isinstance(o.raised, a.allowed_exceptions)
         THEN [breaker |-> b, raises |-> "", returns |-> "None"]
         ELSE IF isinstance(o.raised, a.failure_exceptions)
         THEN [breaker |-> _on_failure(b, t), raises |-> "", returns |-> "None"]
         ELSE IF a.failure_exceptions # {}
         THEN [breaker |-> b, raises |-> "", returns |-> "None"]
         ELSE [breaker |-> _on_failure(b, t), raises |-> "", returns |-> "None"]
    ELSE [breaker |-> _parse_result(a, b, t, o.result),
          raises |-> "", returns |-> "None"]

\* fails after a step: one more when the step was a failure observation,
\* back to 0 when it leaves the breaker Closed with failure_count = 0.
Fails(failure, b) ==
    IF failure THEN fails + 1
    ELSE IF b.state = CLOSED /\ b.failure_count = 0 THEN 0
    ELSE fails

\* The lock is free for a method to take.
Free == built = "ok" /\ ~call.active

\* CircuitBreaker(validation_func=..., allowed_exceptions=..., failure_exceptions=...)
Construct(a) ==
    /\ built = "no"
    /\ args' = a
    /\ built' = IF __init__(a) = "" THEN "ok" ELSE __init__(a)
    /\ breaker' = CircuitBreaker
    /\ last' = [NoLast EXCEPT !.op = "__init__", !.at = now]
    /\ UNCHANGED <<now, call, fails, wrapper_vars, rth, conc_vars>>

\* _call that runs func whatever the state check returns.
CallEnter_admits_open ==
    /\ built = "ok" /\ ~call.active
    /\ breaker' = _check_state(breaker, now)
    /\ call' = [active |-> TRUE, refreshed |-> breaker']
    /\ UNCHANGED <<now, args, built, last, fails, wrapper_vars, rth, conc_vars>>

\* _call, lines 166-170: take the lock, _check_state; on OPEN count the
\* rejection and raise ConnectionError, else call func with the lock held
CallEnter ==
    /\ Free
    /\ LET b1 == _check_state(breaker, now) IN
       IF b1.state = OPEN
       THEN /\ b1.open_circuit_failure_count <= open_circuit_failure_threashold
            /\ breaker' = [b1 EXCEPT !.open_circuit_failure_count = @ + 1]
            /\ last' = [NoLast EXCEPT !.op = "_call", !.prev = b1, !.at = now,
                                      !.ret = "ConnectionError"]
            /\ fails' = Fails(FALSE, breaker')
            /\ UNCHANGED call
       ELSE /\ breaker' = b1
            /\ call' = [active |-> TRUE, refreshed |-> b1]
            /\ UNCHANGED <<last, fails>>
    /\ UNCHANGED <<now, args, built, wrapper_vars, rth, conc_vars>>

\* _call, lines 171-191: func returns or raises o; the outcome is accounted
\* and the lock released
CallReturn(o) ==
    /\ call.active
    /\ LET r == _call(args, breaker, now, o) IN
       /\ r.breaker.failure_count <= MaxFailureCount
       /\ breaker' = r.breaker
       /\ last' = [op |-> "_call", prev |-> breaker, at |-> now, ran |-> TRUE,
                   raised |-> o.raised, result |-> o.result,
                   ret |-> IF r.raises # "" THEN r.raises ELSE r.returns]
       /\ fails' = Fails(r.breaker.failure_count > breaker.failure_count,
                         r.breaker)
    /\ call' = NoCall
    /\ UNCHANGED <<now, args, built, wrapper_vars, rth, conc_vars>>

\* the is_open property
DirectIsOpen ==
    /\ Free
    /\ breaker' = _check_state(breaker, now)
    /\ last' = [NoLast EXCEPT !.op = "is_open", !.prev = breaker, !.at = now,
                   !.ret = IF is_open(breaker, now) THEN "True" ELSE "False"]
    /\ fails' = Fails(FALSE, breaker')
    /\ UNCHANGED <<now, args, built, call, wrapper_vars, rth, conc_vars>>

DirectIncrement ==
    /\ Free
    /\ breaker.open_circuit_failure_count <= open_circuit_failure_threashold
    /\ breaker' = increment_failure_count(breaker)
    /\ last' = [NoLast EXCEPT !.op = "increment_failure_count",
                              !.prev = breaker, !.at = now]
    /\ fails' = Fails(FALSE, breaker')
    /\ UNCHANGED <<now, args, built, call, wrapper_vars, rth, conc_vars>>

DirectMarkFailure ==
    /\ Free
    /\ breaker.failure_count < MaxFailureCount
    /\ breaker' = mark_failure(breaker, now)
    /\ last' = [NoLast EXCEPT !.op = "mark_failure", !.prev = breaker,
                              !.at = now]
    /\ fails' = Fails(TRUE, breaker')
    /\ UNCHANGED <<now, args, built, call, wrapper_vars, rth, conc_vars>>

DirectClose ==
    /\ Free
    /\ breaker' = close(breaker, now)
    /\ last' = [NoLast EXCEPT !.op = "close", !.prev = breaker, !.at = now]
    /\ fails' = Fails(FALSE, breaker')
    /\ UNCHANGED <<now, args, built, call, wrapper_vars, rth, conc_vars>>

\* time.time() advances, also while func runs inside _call
DirectTick ==
    /\ now < MaxTime
    /\ now' = now + 1
    /\ UNCHANGED <<breaker_vars, wrapper_vars, rth, conc_vars>>

\* Any number of threads call the methods of one breaker; each method holds
\* the lock for its whole body, so the calls happen one at a time, in any
\* order.
BreakerNext ==
    \/ \E a \in ArgsTried : Construct(a)
    \/ CallEnter
    \/ \E o \in FuncOutcomes : CallReturn(o)
    \/ DirectIsOpen
    \/ DirectIncrement
    \/ DirectMarkFailure
    \/ DirectClose
    \/ DirectTick
BreakerSpec == Init /\ [][BreakerNext]_vars

-----------------------------------------------------------------------------
(* Vocabulary of the properties                                            *)

ConnectError == [raised |-> "ConnectTimeoutError", status |-> 0]
UncaughtError == [raised |-> "KeyError", status |-> 0]
Status500 == [raised |-> "", status |-> 500]

Done(t) == pc[t] = "done"
\* the attempt budget the request's Retry was built with
Budget(t) == get_backoff_args(kwargs[t], kwargs[t].method).max_tries
\* the breaker the request found was Closed with no failure counted
FreshEntry(t) ==
    obs[t].entry.state = CLOSED /\ obs[t].entry.failure_count = 0
\* every attempt so far raised the retriable connection error
AlwaysConnectError(t) == obs[t].seen = {ConnectError}
AlwaysStatus500(t) == obs[t].seen = {Status500}

-----------------------------------------------------------------------------
\* C1: on a breaker found Closed with failure_count = 0, a request whose every
\* attempt raises the retriable connection error and whose max_tries is at
\* least allowed_fails never makes more than allowed_fails attempts, and when
\* it returns it has made exactly allowed_fails of them, the caller got the
\* connection error (not "Open Circuit") and the breaker is Open.
C1_OpensAtThreshold ==
    \A t \in Threads :
        (FreshEntry(t) /\ AlwaysConnectError(t) /\ Budget(t) >= allowed_fails)
        => /\ obs[t].tries <= allowed_fails
           /\ Done(t) => /\ obs[t].tries = allowed_fails
                         /\ obs[t].result = "ConnectionError"
                         /\ circuit(t).state = OPEN

C1_Witness ==
    /\ Done(1) /\ FreshEntry(1) /\ AlwaysConnectError(1)
    /\ Budget(1) = allowed_fails + 2
    /\ obs[1].tries = allowed_fails
    /\ obs[1].result = "ConnectionError"
    /\ circuit(1).state = OPEN

\* C2: a request ends with "Open Circuit" exactly when its pre-check found the
\* breaker Open; such a request makes no transport attempt and leaves the
\* rejected count one above what the pre-check saw; a request that has made
\* an attempt never ends with "Open Circuit".
C2_RejectedIffOpen ==
    \A t \in Threads :
        /\ Done(t) => (obs[t].result = "Open Circuit" <=> obs[t].pre.state = OPEN)
        /\ (Done(t) /\ obs[t].result = "Open Circuit")
           => /\ obs[t].tries = 0
              /\ circuit(t).open_circuit_failure_count
                    = obs[t].pre.open_circuit_failure_count + 1
        /\ obs[t].tries >= 1 => obs[t].result # "Open Circuit"
        /\ pc[t] = "rejected" => obs[t].pre.state = OPEN /\ obs[t].tries = 0

C2_Witness ==
    /\ Done(1) /\ obs[1].result = "Open Circuit"
    /\ obs[1].pre.state = OPEN /\ obs[1].tries = 0
    /\ circuit(1).open_circuit_failure_count = 1

\* C3 as stated: with a breaker that stays Closed and a transport that always
\* raises the connection error, max_tries = n >= 1 gives exactly n attempts,
\* max_tries = 0 gives one, and no request makes more than max(max_tries, 1).
C3_Original ==
    \A t \in Threads :
        /\ (Done(t) /\ AlwaysConnectError(t) /\ circuit(t).state = CLOSED)
           => obs[t].tries = IF Budget(t) >= 1 THEN Budget(t) ELSE 1
        /\ obs[t].tries <= IF Budget(t) >= 1 THEN Budget(t) ELSE 1

\* C3 amended: max_tries counts the retries after the first attempt. With a
\* breaker that stays Closed and a transport that always raises the connection
\* error, max_tries = n >= 0 gives exactly n + 1 attempts, and no request
\* makes more than max_tries + 1.
C3_BudgetIsRetries ==
    \A t \in Threads :
        /\ (Done(t) /\ AlwaysConnectError(t) /\ circuit(t).state = CLOSED)
           => obs[t].tries = Budget(t) + 1
        /\ obs[t].tries <= Budget(t) + 1

C3_Witness ==
    /\ Done(1) /\ AlwaysConnectError(1) /\ circuit(1).state = CLOSED
    /\ kwargs[1].max_tries = << >>
    /\ obs[1].tries = max_tries + 1

\* C4: on a breaker found Closed with failure_count = 0 and a transport that
\* always raises the connection error, a request with max_tries = n where
\* n + 1 <= allowed_fails makes n + 1 attempts (n after the first), and the
\* caller gets the connection error, not "Open Circuit".
C4_RetriesAfterFirst ==
    \A t \in Threads :
        (Done(t) /\ FreshEntry(t) /\ AlwaysConnectError(t)
            /\ Budget(t) + 1 <= allowed_fails)
        => /\ obs[t].tries = Budget(t) + 1
           /\ obs[t].result = "ConnectionError"

C4_Witness ==
    /\ Done(1) /\ FreshEntry(1) /\ AlwaysConnectError(1)
    /\ kwargs[1].max_tries = <<allowed_fails - 1>>
    /\ obs[1].tries = allowed_fails
    /\ obs[1].result = "ConnectionError"

\* the request's pre-check has run
Checked(t) == pc[t] \notin {"idle", "is_open"}
\* the request found the breaker Open and retry_time had elapsed / had not
FoundOpen(t) == Checked(t) /\ obs[t].entry.state = OPEN
Elapsed(t) == obs[t].at >= obs[t].entry.half_open_time

\* C5: a request that finds the breaker Open once retry_time has elapsed
\* passes the pre-check, which leaves the breaker Half-Open; it never makes a
\* second attempt after a failed first one, and if its first attempt raises
\* the connection error it returns after exactly 1 attempt, whatever its
\* max_tries, with the connection error and the breaker Open again.
C5_ProbeAfterDelay ==
    \A t \in Threads :
        (FoundOpen(t) /\ Elapsed(t))
        => /\ obs[t].pre.state = HALF_OPEN
           /\ pc[t] # "rejected" /\ obs[t].result # "Open Circuit"
           /\ ConnectError \in obs[t].seen => obs[t].tries = 1
           /\ (Done(t) /\ ConnectError \in obs[t].seen)
              => /\ obs[t].result = "ConnectionError"
                 /\ circuit(t).state = OPEN

C5_Witness ==
    /\ Done(1) /\ FoundOpen(1) /\ Elapsed(1)
    /\ obs[1].entry.open_circuit_failure_count = 0
    /\ Budget(1) = allowed_fails + 2
    /\ AlwaysConnectError(1) /\ obs[1].tries = 1
    /\ circuit(1).state = OPEN

\* C6: while the breaker is Open and retry_time has not elapsed, a request is
\* rejected with "Open Circuit" and no attempt as long as fewer than
\* rejected_threshold requests were rejected since the breaker opened (the
\* count starts at 0 when the breaker opens and grows by one per rejection,
\* never past the threshold), and the request that finds the count at the
\* threshold is admitted on a Half-Open breaker; if its attempt raises the
\* connection error it makes exactly 1 attempt.
C6_ProbeAfterRejections ==
    \A t \in Threads :
        /\ (Done(t) /\ obs[t].marks > 0 /\ circuit(t).state = OPEN)
           => circuit(t).open_circuit_failure_count = 0
        /\ Key(t) \in DOMAIN _breakers
           => circuit(t).open_circuit_failure_count
                 <= open_circuit_failure_threashold
        /\ (FoundOpen(t) /\ ~Elapsed(t))
           => IF obs[t].entry.open_circuit_failure_count
                    < open_circuit_failure_threashold
              THEN /\ obs[t].pre.state = OPEN
                   /\ obs[t].tries = 0
                   /\ Done(t) =>
                        /\ obs[t].result = "Open Circuit"
                        /\ circuit(t).open_circuit_failure_count
                              = obs[t].entry.open_circuit_failure_count + 1
              ELSE /\ obs[t].pre.state = HALF_OPEN
                   /\ pc[t] # "rejected" /\ obs[t].result # "Open Circuit"
                   /\ ConnectError \in obs[t].seen => obs[t].tries = 1

C6_Witness ==
    /\ Done(1) /\ FoundOpen(1) /\ ~Elapsed(1)
    /\ obs[1].entry.open_circuit_failure_count = open_circuit_failure_threashold
    /\ obs[1].pre.state = HALF_OPEN
    /\ AlwaysConnectError(1) /\ obs[1].tries = 1

\* C7: a request that returns a response after its pre-check left the breaker
\* Half-Open leaves the breaker Closed with failure_count = 0 and
\* rejected_count = 0; the caller's next request, if every attempt raises the
\* connection error and max_tries >= allowed_fails, makes exactly
\* allowed_fails attempts and leaves the breaker Open.
C7_ClosedOnProbeSuccess ==
    \A t \in Threads :
        /\ (Done(t) /\ obs[t].result = "Response"
               /\ obs[t].pre.state = HALF_OPEN)
           => /\ circuit(t).state = CLOSED
              /\ circuit(t).failure_count = 0
              /\ circuit(t).open_circuit_failure_count = 0
        /\ (obs[t].after_probe /\ Checked(t))
           => FreshEntry(t) /\ obs[t].entry.open_circuit_failure_count = 0
        /\ (obs[t].after_probe /\ Done(t) /\ AlwaysConnectError(t)
               /\ Budget(t) >= allowed_fails)
           => /\ obs[t].tries = allowed_fails
              /\ circuit(t).state = OPEN

C7_Witness ==
    /\ obs[1].after_probe /\ Done(1) /\ AlwaysConnectError(1)
    /\ Budget(1) = allowed_fails + 2
    /\ obs[1].tries = allowed_fails
    /\ circuit(1).state = OPEN

\* C8: when a request has returned a response (the wrapper has run
\* circuit.close()), the breaker is Closed with failure_count = 0 and
\* rejected_count = 0, whatever state the request found it in.
C8_SuccessResets ==
    \A t \in Threads :
        (Done(t) /\ obs[t].result = "Response")
        => /\ circuit(t).state = CLOSED
           /\ circuit(t).failure_count = 0
           /\ circuit(t).open_circuit_failure_count = 0

\* the method is in the request's effective whitelist, as C9 words it
InEffectiveWhitelist(t) ==
    \/ kwargs[t].method \in {"get", "head"}
    \/ kwargs[t].max_tries # << >> /\ kwargs[t].max_tries[1] > 0

\* C9: an attempt that returns a force-listed status (500) goes to the retry
\* path, with mark_failure(), exactly when the method is HEAD or GET or the
\* caller passed max_tries > 0; otherwise the response is returned. On a
\* breaker found Closed with failure_count = 0 and an always-500 server: a PUT
\* with max_tries >= allowed_fails makes exactly allowed_fails attempts and
\* fails with RetryError, a PUT without max_tries makes exactly 1 attempt and
\* returns the response, and a GET without max_tries makes the first attempt
\* and max_tries retries (when that stays below allowed_fails).
C9_StatusRetryByMethod ==
    \A t \in Threads :
        /\ (obs[t].last = Status500 /\ pc[t] \in {"mark_failure", "close"})
           => (pc[t] = "mark_failure" <=> InEffectiveWhitelist(t))
        /\ (Done(t) /\ FreshEntry(t) /\ AlwaysStatus500(t))
           => /\ (kwargs[t].method = "put" /\ kwargs[t].max_tries # << >>
                     /\ Budget(t) >= allowed_fails)
                 => /\ obs[t].tries = allowed_fails
                    /\ obs[t].marks = allowed_fails
                    /\ obs[t].result = "RetryError"
              /\ (kwargs[t].method = "put" /\ kwargs[t].max_tries = << >>)
                 => /\ obs[t].tries = 1 /\ obs[t].marks = 0
                    /\ obs[t].result = "Response"
              /\ (kwargs[t].method = "get" /\ kwargs[t].max_tries = << >>
                     /\ max_tries + 1 <= allowed_fails)
                 => /\ obs[t].tries = max_tries + 1
                    /\ obs[t].marks = max_tries + 1
                    /\ obs[t].result = "RetryError"

C9_Witness ==
    /\ Done(1) /\ FreshEntry(1) /\ AlwaysStatus500(1)
    /\ kwargs[1].method = "put"
    /\ kwargs[1].max_tries = <<allowed_fails + 2>>
    /\ obs[1].tries = allowed_fails
    /\ obs[1].result = "RetryError"

\* C10: an attempt that raises an error outside retriable_errors ends the
\* request there: the error reaches the caller, no further attempt is made,
\* and neither mark_failure() nor close() runs for it. When it is the first
\* attempt, the request has made exactly one attempt, whatever max_tries is,
\* and the breaker is as the pre-check left it.
C10_NonRetriablePropagates ==
    \A t \in Threads :
        /\ UncaughtError \in obs[t].seen
           => /\ Done(t)
              /\ obs[t].result = "KeyError"
              /\ obs[t].last = UncaughtError
              /\ obs[t].marks = obs[t].tries - 1
        /\ obs[t].result = "KeyError" => UncaughtError \in obs[t].seen
        /\ obs[t].seen = {UncaughtError}
           => /\ obs[t].tries = 1
              /\ obs[t].marks = 0
              /\ circuit(t) = obs[t].pre

C10_Witness ==
    /\ Done(1) /\ obs[1].seen = {UncaughtError}
    /\ Budget(1) = allowed_fails + 2
    /\ obs[1].tries = 1 /\ obs[1].result = "KeyError"
    /\ obs[1].pre.state = HALF_OPEN
    /\ circuit(1) = obs[1].pre

-----------------------------------------------------------------------------
(* Properties of the breaker used directly (BreakerSpec)                   *)

\* the latest method call was a _call whose func ran / raised / returned
CallRan == last.op = "_call" /\ last.ran
CallRaised == CallRan /\ last.raised # ""
CallReturned == CallRan /\ last.raised = ""
\* the error raised is listed, itself or through a base class
Listed(classes) ==
    \E c \in classes :
        \/ c = last.raised
        \/ c = "AttributeError" /\ last.raised = "TestException"
        \/ c = "LookupError" /\ last.raised = "KeyError"
\* no method is running: breaker is as the latest method call left it
Settled == built = "ok" /\ ~call.active

\* C11: whenever the breaker is Closed, 0 <= failure_count < allowed_fails,
\* whatever methods were called on it and in whatever order.
C11_ClosedBelowThreshold ==
    (built = "ok" /\ breaker.state = CLOSED)
    => (0 <= breaker.failure_count /\ breaker.failure_count < allowed_fails)

C11_Witness ==
    /\ built = "ok" /\ breaker.state = CLOSED
    /\ breaker.failure_count = allowed_fails - 1
    /\ CallRaised /\ last.prev.failure_count = allowed_fails - 2

\* C12: counting the failure observations since the breaker was last Closed
\* with failure_count = 0: below allowed_fails of them the breaker is Closed
\* with failure_count equal to their number; the observation that makes them
\* allowed_fails leaves it Open with failure_count = allowed_fails,
\* rejected_count = 0 and half_open_time = T + retry_time, T the time of
\* that observation.
C12_OpensAfterAllowedFails ==
    built = "ok" =>
        /\ fails < allowed_fails
           => breaker.state = CLOSED /\ breaker.failure_count = fails
        /\ (Settled /\ fails = allowed_fails
               /\ breaker.failure_count > last.prev.failure_count)
           => /\ breaker.state = OPEN
              /\ breaker.failure_count = allowed_fails
              /\ breaker.open_circuit_failure_count = 0
              /\ breaker.half_open_time = last.at + retry_time

C12_Witness ==
    /\ Settled /\ fails = allowed_fails
    /\ CallRaised /\ last.at > 0
    /\ last.prev.state = CLOSED
    /\ last.prev.open_circuit_failure_count > 0
    /\ breaker.state = OPEN
    /\ breaker.half_open_time = last.at + retry_time

\* C13: when func returns normally (the breaker was Closed or Half-Open),
\* with no validation_func or one that accepts the result the breaker is
\* Closed with failure_count = 0 and rejected_count = 0 afterwards; with a
\* validation_func that refuses the result, failure_count is one more.
C13_ResultClassified ==
    CallReturned =>
        /\ last.prev.state \in {CLOSED, HALF_OPEN}
        /\ IF args.validation_func = "None" \/ last.result > 0
           THEN /\ breaker.state = CLOSED
                /\ breaker.failure_count = 0
                /\ breaker.open_circuit_failure_count = 0
           ELSE breaker.failure_count = last.prev.failure_count + 1

C13_Witness ==
    /\ CallReturned /\ args.validation_func = "validation_stub"
    /\ last.result = 0 /\ last.prev.state = HALF_OPEN
    /\ breaker.failure_count = last.prev.failure_count + 1
    /\ breaker.state = OPEN

\* C14: when func raises an error listed in allowed_exceptions, itself or
\* through a base class, _call returns normally with no result and the
\* breaker's fields are as the state check at the start of the call left
\* them.
C14_AllowedErrorIsNeutral ==
    (CallRaised /\ Listed(args.allowed_exceptions))
    => /\ last.ret = "None"
       /\ ~call.active => breaker = last.prev

C14_Witness ==
    /\ CallRaised /\ ~call.active
    /\ last.raised = "TestException"
    /\ args.allowed_exceptions = {"AttributeError"}
    /\ last.prev.state = HALF_OPEN
    /\ breaker = last.prev

\* the error raised counts as a failure, as C15 words it
CountsAsFailure ==
    \/ args.failure_exceptions # {} /\ Listed(args.failure_exceptions)
    \/ args.failure_exceptions = {} /\ ~Listed(args.allowed_exceptions)

\* C15: an error raised by func counts as a failure (failure_count + 1, and
\* Open at the threshold) exactly when failure_exceptions is non-empty and
\* lists it, or failure_exceptions is empty and allowed_exceptions does not
\* list it; when failure_exceptions is non-empty and does not list it,
\* state, failure_count and rejected_count are unchanged.
C15_ErrorClassified ==
    CallRaised =>
        /\ IF CountsAsFailure
           THEN /\ breaker.failure_count = last.prev.failure_count + 1
                /\ (~call.active /\ breaker.failure_count >= allowed_fails)
                   => breaker.state = OPEN
           ELSE breaker.failure_count = last.prev.failure_count
        /\ (~call.active /\ args.failure_exceptions # {}
               /\ ~Listed(args.failure_exceptions))
           => breaker = last.prev

C15_Witness ==
    /\ CallRaised /\ ~call.active
    /\ args.failure_exceptions = {"LookupError"}
    /\ last.raised = "KeyError"
    /\ last.prev.state = CLOSED
    /\ breaker.state = OPEN
    /\ breaker.failure_count = allowed_fails

\* C16 as stated: _call re-raises every error of func that allowed_exceptions
\* does not list.
C16_Original ==
    (CallRaised /\ ~Listed(args.allowed_exceptions)) => last.ret = last.raised

\* C16 amended: _call re-raises no error of func. Whatever func raises, _call
\* returns normally with no result, after the failure is accounted when the
\* error counts as one; the only error _call raises is the ConnectionError of
\* an open circuit, and then func has not run.
C16_ErrorsSwallowed ==
    last.op = "_call" =>
        /\ last.ran => last.ret = "None"
        /\ CallRaised =>
              breaker.failure_count =
                 last.prev.failure_count + (IF CountsAsFailure THEN 1 ELSE 0)
        /\ ~last.ran => last.ret = "ConnectionError" /\ last.prev.state = OPEN

C16_Witness ==
    /\ CallRaised /\ last.raised = "KeyError"
    /\ args.allowed_exceptions = {} /\ args.failure_exceptions = {}
    /\ last.ret = "None"
    /\ breaker.failure_count = last.prev.failure_count + 1

\* C17: the constructor fails with ValueError exactly when allowed_exceptions
\* and failure_exceptions are both non-empty, and then there is no breaker
\* to call; otherwise the new breaker is Closed with failure_count = 0 and
\* rejected_count = 0.
C17_BothListsRefused ==
    built # "no" =>
        /\ built = "ValueError"
           <=> (args.allowed_exceptions # {} /\ args.failure_exceptions # {})
        /\ built = "ValueError" => last.op = "__init__" /\ ~call.active
        /\ (built = "ok" /\ last.op = "__init__" /\ ~call.active)
           => /\ breaker.state = CLOSED
              /\ breaker.failure_count = 0
              /\ breaker.open_circuit_failure_count = 0

C17_Witness ==
    /\ built = "ValueError"
    /\ args.allowed_exceptions = {"AttributeError"}
    /\ args.failure_exceptions = {"KeyError"}

\* C19: close() on a Closed breaker changes no field, and a second close()
\* changes nothing after the first, whenever it comes.
C19_CloseIdempotent ==
    (Settled /\ last.op = "close")
    => /\ last.prev.state = CLOSED => breaker = last.prev
       /\ \A t \in now..MaxTime : close(breaker, t) = breaker

C19_Witness ==
    /\ Settled /\ last.op = "close" /\ last.prev.state = CLOSED
    /\ last.prev.failure_count > 0
    /\ last.prev.open_circuit_failure_count > 0
    /\ breaker = last.prev

\* C20: is_open changes neither failure_count nor rejected_count nor
\* half_open_time; the only state change it makes is Open -> Half-Open; and
\* it returns True exactly when the state it leaves is Open.
C20_IsOpenFrame ==
    last.op = "is_open" =>
        /\ breaker.failure_count = last.prev.failure_count
        /\ breaker.open_circuit_failure_count
              = last.prev.open_circuit_failure_count
        /\ breaker.half_open_time = last.prev.half_open_time
        /\ ~call.active =>
              /\ \/ breaker.state = last.prev.state
                 \/ last.prev.state = OPEN /\ breaker.state = HALF_OPEN
              /\ last.ret = "True" <=> breaker.state = OPEN

C20_Witness ==
    /\ Settled /\ last.op = "is_open"
    /\ last.prev.state = OPEN /\ breaker.state = HALF_OPEN
    /\ last.prev.open_circuit_failure_count >= open_circuit_failure_threashold
    /\ last.at < last.prev.half_open_time
    /\ last.ret = "False"

-----------------------------------------------------------------------------
(* Breaker.new called by concurrent threads (RegistrySpec)                 *)

\* every breaker constructed so far, as [key, id]
Made == UNION {rth[t].made : t \in RThreads}
\* the breaker _breakers[key] refers to: the latest one stored under key
Stored(key) ==
    LET ids == {m.id : m \in {n \in Made : n.key = key}} IN
    CHOOSE i \in ids : \A j \in ids : j <= i

\* a thread calls Breaker.new(url)
RCall(t, url) ==
    /\ rth[t].pc = "idle"
    /\ rth' = [rth EXCEPT ![t] = [@ EXCEPT !.pc = "get_key", !.url = url]]
    /\ UNCHANGED <<now, wrapper_vars, breaker_vars, conc_vars>>

\* line 47: key = cls.get_key(url), outside the lock
RGetKey(t) ==
    /\ rth[t].pc = "get_key"
    /\ rth' = [rth EXCEPT ![t] = [@ EXCEPT !.pc = "lock",
                                           !.key = get_key(rth[t].url)]]
    /\ UNCHANGED <<now, wrapper_vars, breaker_vars, conc_vars>>

\* line 49: `with cls._lock:` is entered when no other thread is inside
RAcquire(t) ==
    /\ rth[t].pc = "lock"
    /\ \A o \in RThreads : rth[o].pc # "locked"
    /\ rth' = [rth EXCEPT ![t] = [@ EXCEPT !.pc = "locked"]]
    /\ UNCHANGED <<now, wrapper_vars, breaker_vars, conc_vars>>

\* lines 50-62 under the lock: return the entry of key, constructed and
\* stored first when there is none; the return releases the lock
RNew(t) ==
    /\ rth[t].pc = "locked"
    /\ _breakers' = new(_breakers, rth[t].url)
    /\ LET id == Cardinality(Made) IN
       IF creates(_breakers, rth[t].url)
       THEN rth' = [rth EXCEPT ![t] =
                       [@ EXCEPT !.pc = "have", !.got = id,
                                 !.made = @ \cup {[key |-> rth[t].key,
                                                   id |-> id]}]]
       ELSE rth' = [rth EXCEPT ![t] =
                       [@ EXCEPT !.pc = "have", !.got = Stored(rth[t].key)]]
    /\ UNCHANGED <<now, pc, kwargs, retries, obs, breaker_vars, conc_vars>>

\* the caller uses the breaker it was returned: circuit.mark_failure()
RUse(t) ==
    /\ rth[t].pc = "have"
    /\ _breakers[rth[t].key].failure_count < MaxFailureCount
    /\ _breakers' = [_breakers EXCEPT ![rth[t].key] = mark_failure(@, now)]
    /\ UNCHANGED <<now, pc, kwargs, retries, obs, breaker_vars, rth, conc_vars>>

\* the caller is done with the breaker
RReturn(t) ==
    /\ rth[t].pc = "have"
    /\ rth' = [rth EXCEPT ![t] = [NoNew EXCEPT !.made = rth[t].made]]
    /\ UNCHANGED <<now, wrapper_vars, breaker_vars, conc_vars>>

RegistryNext ==
    \E t \in RThreads :
        \/ \E url \in NewUrls : RCall(t, url)
        \/ RGetKey(t)
        \/ RAcquire(t)
        \/ RNew(t)
        \/ RUse(t)
        \/ RReturn(t)

RegistrySpec == Init /\ [][RegistryNext]_vars

\* the thread holds the breaker Breaker.new returned it
Holding(t) == rth[t].pc = "have"
\* host:port of an authority: the netloc without its userinfo
hostport(netloc) ==
    CASE netloc = "bob@www.a.com" -> "www.a.com"
      [] OTHER -> netloc

\* C18 as stated: two calls whose urls have the same scheme, host:port and
\* path are returned the same breaker.
C18_Original ==
    \A t1, t2 \in RThreads :
        (/\ Holding(t1) /\ Holding(t2)
         /\ rth[t1].url.scheme = rth[t2].url.scheme
         /\ hostport(rth[t1].url.netloc) = hostport(rth[t2].url.netloc)
         /\ rth[t1].url.path = rth[t2].url.path)
        => rth[t1].got = rth[t2].got

\* C18 amended: whatever the interleaving of concurrent Breaker.new calls, at
\* most one breaker is ever constructed per key; calls whose urls have the
\* same scheme, netloc (the authority as written, userinfo included) and
\* path, whatever their query and fragment, are returned that same breaker;
\* and a key once stored stays, with the breaker stored first.
C18_OneBreakerPerKey ==
    /\ \A m, n \in Made : m.key = n.key => m = n
    /\ DOMAIN _breakers = {m.key : m \in Made}
    /\ \A t \in RThreads :
          Holding(t) =>
             [key |-> rth[t].url.scheme \o rth[t].url.netloc
                         \o rth[t].url.path,
              id |-> rth[t].got] \in Made
    /\ \A t1, t2 \in RThreads :
          (/\ Holding(t1) /\ Holding(t2)
           /\ rth[t1].url.scheme = rth[t2].url.scheme
           /\ rth[t1].url.netloc = rth[t2].url.netloc
           /\ rth[t1].url.path = rth[t2].url.path)
          => rth[t1].got = rth[t2].got

C18_Witness ==
    /\ Holding(1) /\ Holding(2)
    /\ rth[1].url.query # "" /\ rth[2].url.fragment # ""
    /\ rth[1].got = rth[2].got
    /\ rth[2].made # {} /\ rth[1].made = {}
    /\ _breakers[rth[1].key].failure_count > 0
    /\ Cardinality(DOMAIN _breakers) = 2

-----------------------------------------------------------------------------
(* Transitions of the breaker used directly (BreakerSpec)                  *)

\* the refresh rule applies to an Open breaker b at time t
Due(b, t) ==
    \/ t >= b.half_open_time
    \/ b.open_circuit_failure_count >= open_circuit_failure_threashold

\* C21: a _call that finds the breaker Open after the state check never runs
\* func, adds exactly one to the rejected count, leaves state, failure_count
\* and half_open_time alone and raises ConnectionError; in every other state
\* func runs, once, before _call returns.
C21_OpenRejects ==
    /\ (last.op = "_call" /\ ~last.ran)
       => /\ last.prev.state = OPEN
          /\ last.ret = "ConnectionError"
          /\ Settled =>
                breaker = [last.prev EXCEPT
                              !.open_circuit_failure_count = @ + 1]
    /\ (last.op = "_call" /\ last.ran)
       => last.prev.state # OPEN /\ last.ret # "ConnectionError"
    /\ call.active
       => call.refreshed.state # OPEN /\ breaker = call.refreshed

C21_Witness ==
    /\ Settled /\ last.op = "_call" /\ ~last.ran
    /\ last.prev.open_circuit_failure_count = 1
    /\ breaker.open_circuit_failure_count = 2
    /\ breaker.state = OPEN /\ last.at > 0

\* C22: the breaker becomes Half-Open only from Open, and only in a step
\* where now >= half_open_time or the rejected count has reached its
\* threshold; while it is Open with neither true, is_open returns True,
\* _call rejects without running func, and close() finds it not Closed.
C22_HalfOpenOnlyWhenDue ==
    [][/\ (breaker'.state = HALF_OPEN /\ breaker.state # HALF_OPEN)
          => breaker.state = OPEN /\ Due(breaker, now)
       /\ (built = "ok" /\ breaker.state = OPEN /\ ~Due(breaker, now))
          => /\ (last' # last /\ last'.op = "is_open")
                => last'.ret = "True" /\ breaker'.state = OPEN
             /\ (last' # last /\ last'.op = "_call")
                => /\ ~last'.ran /\ last'.ret = "ConnectionError"
                   /\ breaker'.state = OPEN
             /\ ~call'.active
             /\ (last' # last /\ last'.op = "close")
                => breaker'.state = CLOSED /\ breaker'.failure_count = 0]_vars

C22_Witness ==
    /\ Settled /\ last.op = "is_open"
    /\ last.prev.state = OPEN /\ breaker.state = HALF_OPEN
    /\ last.at >= last.prev.half_open_time
    /\ last.prev.open_circuit_failure_count < open_circuit_failure_threashold
    /\ last.ret = "False"

\* C23 as stated: mark_failure() on an Open breaker adds one to failure_count
\* and changes nothing else, whatever its half_open_time and rejected count.
C23_Original ==
    (Settled /\ last.op = "mark_failure" /\ last.prev.state = OPEN)
    => breaker = [last.prev EXCEPT !.failure_count = @ + 1]

\* C23 amended: mark_failure() on an Open breaker adds one to failure_count.
\* When neither now >= half_open_time nor the rejected count has reached its
\* threshold, nothing else changes. When one of them holds, the state check
\* inside _on_failure makes the breaker Half-Open and it is opened again:
\* the state is Open, half_open_time = now + retry_time and the rejected
\* count is 0.
C23_MarkFailureWhenOpen ==
    (Settled /\ last.op = "mark_failure" /\ last.prev.state = OPEN)
    => IF Due(last.prev, last.at)
       THEN breaker = [state |-> OPEN,
                       failure_count |-> last.prev.failure_count + 1,
                       open_circuit_failure_count |-> 0,
                       half_open_time |-> last.at + retry_time]
       ELSE breaker = [last.prev EXCEPT !.failure_count = @ + 1]

C23_Witness ==
    /\ Settled /\ last.op = "mark_failure" /\ last.prev.state = OPEN
    /\ last.at >= last.prev.half_open_time
    /\ last.prev.open_circuit_failure_count > 0
    /\ breaker.state = OPEN
    /\ breaker.open_circuit_failure_count = 0
    /\ breaker.half_open_time > last.prev.half_open_time

\* C24: whenever the breaker is Open or Half-Open, failure_count >=
\* allowed_fails; so one failure observed in Half-Open (mark_failure, or a
\* _call whose func fails) leaves it Open with half_open_time = now +
\* retry_time and the rejected count 0.
C24_FailureReopens ==
    built = "ok" =>
        /\ breaker.state \in {OPEN, HALF_OPEN}
           => breaker.failure_count >= allowed_fails
        /\ (/\ Settled /\ last.prev.state = HALF_OPEN
            /\ \/ last.op = "mark_failure"
               \/ CallRan /\ breaker.failure_count > last.prev.failure_count)
           => /\ breaker.state = OPEN
              /\ breaker.half_open_time = last.at + retry_time
              /\ breaker.open_circuit_failure_count = 0

C24_Witness ==
    /\ Settled /\ last.op = "mark_failure"
    /\ last.prev.state = HALF_OPEN
    /\ last.prev.open_circuit_failure_count > 0
    /\ breaker.state = OPEN
    /\ breaker.failure_count = last.prev.failure_count + 1

\* C25 as stated: right after every change of state, failure_count <=
\* allowed_fails.
C25_Original ==
    [][breaker'.state # breaker.state
       => breaker'.failure_count <= allowed_fails]_vars

\* C25 amended: right after Closed -> Open failure_count = allowed_fails and
\* right after any change to Closed it is 0; right after Open -> Half-Open
\* and Half-Open -> Open it is at least allowed_fails and may exceed it,
\* being the count before the step or one more.
C25_CountAtTransitions ==
    [][breaker'.state # breaker.state
       => IF breaker'.state = CLOSED
          THEN breaker'.failure_count = 0
          ELSE IF breaker.state = CLOSED
          THEN breaker'.state = OPEN
               /\ breaker'.failure_count = allowed_fails
          ELSE /\ breaker'.failure_count >= allowed_fails
               /\ breaker'.failure_count - breaker.failure_count
                     \in {0, 1}]_vars

C25_Witness ==
    /\ Settled /\ last.op = "is_open"
    /\ last.prev.state = OPEN /\ breaker.state = HALF_OPEN
    /\ breaker.failure_count > allowed_fails

-----------------------------------------------------------------------------
(* Concurrent requests to one endpoint (ConcurrentSpec)                    *)

\* the breaker of the endpoint, once Breaker.new has stored it
Shared == _breakers[SharedKey]

\* probes after a step that leaves the breaker as b: the requests let
\* through by the pre-check since the breaker last became Half-Open
Probes(b, admitted) ==
    IF b.state # HALF_OPEN THEN 0
    ELSE IF admitted THEN probes + 1 ELSE probes

\* line 110: circuit = Breaker.new(url)
CRequest(t) ==
    /\ cth[t].pc = "idle"
    /\ _breakers' = new(_breakers, SharedUrl)
    /\ cth' = [cth EXCEPT ![t] = [NoRequest EXCEPT !.pc = "is_open"]]
    /\ UNCHANGED <<now, pc, kwargs, retries, obs, breaker_vars, rth, probes>>

\* line 111: `if circuit.is_open:`; the lock is released before line 113
CPreCheck(t) ==
    /\ cth[t].pc = "is_open"
    /\ LET b1 == _check_state(Shared, now)
           rejected == is_open(Shared, now)
       IN /\ _breakers' = [_breakers EXCEPT ![SharedKey] = b1]
          /\ cth' = [cth EXCEPT ![t] =
                        [@ EXCEPT !.pc = IF rejected THEN "increment"
                                         ELSE "send",
                                  !.adm = b1.state]]
          /\ probes' = Probes(b1, ~rejected)
    /\ UNCHANGED <<now, pc, kwargs, retries, obs, breaker_vars, rth>>

\* lines 113-114: circuit.increment_failure_count(), raise ConnectionError
CReject(t) ==
    /\ cth[t].pc = "increment"
    /\ Shared.open_circuit_failure_count <= open_circuit_failure_threashold
    /\ _breakers' = [_breakers EXCEPT
                        ![SharedKey] = increment_failure_count(@)]
    /\ cth' = [cth EXCEPT ![t] = [@ EXCEPT !.pc = "idle"]]
    /\ probes' = Probes(Shared, FALSE)
    /\ UNCHANGED <<now, pc, kwargs, retries, obs, breaker_vars, rth>>

\* line 137, the attempt ends with ConnectTimeoutError: Retry.increment
\* asks is_exhausted, whose first statement is circuit.mark_failure()
CFail(t) ==
    /\ cth[t].pc = "send"
    /\ Retried(OneTry, "get", [raised |-> "ConnectTimeoutError", status |-> 0])
    /\ Shared.failure_count < MaxFailureCount
    /\ LET b1 == mark_failure(Shared, now) IN
       /\ _breakers' = [_breakers EXCEPT ![SharedKey] = b1]
       /\ cth' = [cth EXCEPT ![t] =
                     [@ EXCEPT !.pc = "is_exhausted",
                               !.acct = [kind |-> "failure",
                                         was |-> Shared.state,
                                         added |-> b1.failure_count
                                                     - Shared.failure_count,
                                         left |-> b1.state,
                                         count |-> b1.failure_count]]]
       /\ probes' = Probes(b1, FALSE)
    /\ UNCHANGED <<now, pc, kwargs, retries, obs, breaker_vars, rth>>

\* lines 120-122: `if circuit.is_open: return True`, else the base class's
\* answer on the Retry object after its one try
CIsExhausted(t) ==
    /\ cth[t].pc = "is_exhausted"
    /\ LET b1 == _check_state(Shared, now) IN
       /\ _breakers' = [_breakers EXCEPT ![SharedKey] = b1]
       /\ probes' = Probes(b1, FALSE)
    /\ cth' = [cth EXCEPT ![t] =
                  [@ EXCEPT !.pc =
                      IF is_exhausted(Shared, now, increment(OneTry, "connect"))
                      THEN "idle" ELSE "send"]]
    /\ UNCHANGED <<now, pc, kwargs, retries, obs, breaker_vars, rth>>

\* lines 137-139, the attempt returns a 200: circuit.close(), return resp
CSucceed(t) ==
    /\ cth[t].pc = "send"
    /\ ~Retried(OneTry, "get", [raised |-> "", status |-> 200])
    /\ LET b1 == close(Shared, now) IN
       /\ _breakers' = [_breakers EXCEPT ![SharedKey] = b1]
       /\ cth' = [cth EXCEPT ![t] =
                     [@ EXCEPT !.pc = "idle",
                               !.acct = [kind |-> "success",
                                         was |-> Shared.state,
                                         added |-> b1.failure_count
                                                     - Shared.failure_count,
                                         left |-> b1.state,
                                         count |-> b1.failure_count]]]
       /\ probes' = Probes(b1, FALSE)
    /\ UNCHANGED <<now, pc, kwargs, retries, obs, breaker_vars, rth>>

\* time.time() advances, whatever the threads are doing
CTick ==
    /\ now < MaxTime
    /\ now' = now + 1
    /\ UNCHANGED <<wrapper_vars, breaker_vars, rth, conc_vars>>

ConcurrentNext ==
    \/ CTick
    \/ \E t \in Callers :
          \/ CRequest(t)
          \/ CPreCheck(t)
          \/ CReject(t)
          \/ CFail(t)
          \/ CIsExhausted(t)
          \/ CSucceed(t)

ConcurrentSpec == Init /\ [][ConcurrentNext]_vars

\* the thread's transport attempt is in progress
InTransport(t) == cth[t].pc = "send"

\* C26: between the breaker becoming Half-Open and its leaving Half-Open, at
\* most one request passes the pre-check and reaches the transport, however
\* the concurrent requests interleave.
C26_SingleProbe == probes <= 1

\* C27 as stated: no two transport attempts for the endpoint are in progress
\* at the same time.
C27_Original == Cardinality({t \in Callers : InTransport(t)}) <= 1

\* C27 amended: the transport attempt runs with no breaker lock held, so
\* attempts for one endpoint overlap; each was let through by a pre-check
\* that did not find the breaker Open, and each outcome is accounted against
\* the breaker as it is when the outcome arrives, whatever it was at the
\* pre-check: a failure adds exactly one to failure_count, a success leaves
\* the breaker Closed, with failure_count 0 when it was not Closed.
C27_AccountedOnArrival ==
    \A t \in Callers :
        /\ InTransport(t) => cth[t].adm \in {CLOSED, HALF_OPEN}
        /\ cth[t].acct.kind = "failure" => cth[t].acct.added = 1
        /\ cth[t].acct.kind = "success"
           => /\ cth[t].acct.left = CLOSED
              /\ cth[t].acct.was # CLOSED => cth[t].acct.count = 0
              /\ cth[t].acct.was = CLOSED => cth[t].acct.added = 0

C27_Witness ==
    /\ InTransport(1)
    /\ cth[2].pc = "is_exhausted"
    /\ cth[2].adm = CLOSED
    /\ cth[2].acct.kind = "failure" /\ cth[2].acct.was = OPEN
    /\ cth[1].adm = HALF_OPEN

\* C28: under concurrent requests the rejected count is 0 whenever the
\* breaker is Closed and never exceeds its threshold.
C28_RejectedCount ==
    SharedKey \in DOMAIN _breakers
    => /\ Shared.state = CLOSED => Shared.open_circuit_failure_count = 0
       /\ Shared.open_circuit_failure_count <= open_circuit_failure_threashold

====
